---- MODULE Spec2Model ----
(***************************************************************************)
(* pwfz: search a Passwork vault, pick one entry with fzf, copy its        *)
(* secret to the clipboard (src/pwfz.go).                                  *)
(*                                                                         *)
(* A Go string is modelled as the sequence of its bytes (numbers 0..255),  *)
(* so that base64 decoding, whitespace trimming, joining and splitting are *)
(* computed the way the program computes them.  All sample strings are     *)
(* ASCII.                                                                  *)
(***************************************************************************)
EXTENDS Integers, Sequences, FiniteSets, TLC

(***************************************************************************)
(* Bounds of the model.                                                    *)
(***************************************************************************)
\* longest search result (number of hits) the search call returns
MaxHits == 2
\* longest path-segment list given to formatPath
MaxPath == 3
\* longest custom-field list given to formatDescription
MaxCustom == 2

(***************************************************************************)
(* Strings as byte sequences.                                              *)
(***************************************************************************)
\* The letters and digits, in ASCII order.
Upper ==
    << "A", "B", "C", "D", "E", "F", "G", "H", "I", "J", "K", "L", "M",
       "N", "O", "P", "Q", "R", "S", "T", "U", "V", "W", "X", "Y", "Z" >>

Lower ==
    << "a", "b", "c", "d", "e", "f", "g", "h", "i", "j", "k", "l", "m",
       "n", "o", "p", "q", "r", "s", "t", "u", "v", "w", "x", "y", "z" >>

Digit == << "0", "1", "2", "3", "4", "5", "6", "7", "8", "9" >>

\* The punctuation the sample strings use, each with its ASCII code.
Punct ==
    { <<" ", 32>>, <<"!", 33>>, <<"(", 40>>, <<")", 41>>, <<"+", 43>>,
      <<"-", 45>>, <<"/", 47>>, <<";", 59>>, <<"=", 61>>, <<"|", 124>> }

Index(t, c) == CHOOSE i \in 1..Len(t) : t[i] = c

\* The byte of an ASCII character.
Ord(c) ==
    IF \E i \in 1..Len(Upper) : Upper[i] = c THEN 64 + Index(Upper, c)
    ELSE IF \E i \in 1..Len(Lower) : Lower[i] = c THEN 96 + Index(Lower, c)
    ELSE IF \E i \in 1..Len(Digit) : Digit[i] = c THEN 47 + Index(Digit, c)
    ELSE (CHOOSE p \in Punct : p[1] = c)[2]

\* The byte sequence of a string written as a tuple of characters.
Str(t) == [i \in 1..Len(t) |-> Ord(t[i])]

\* "\t", the delimiter between the id column and the display columns.
TAB == 9
\* "\n", which ends the line fzf prints and separates the lines it reads.
NL == 10
\* '=', the padding character of base64.StdEncoding.
PAD == 61
\* '|'
PIPE == 124

\* " | ", the separator of the display columns.
SEP == Str(<<" ", "|", " ">>)

\* unicode.IsSpace on an ASCII byte: \t \n \v \f \r and space.
IsSpace(b) == b \in {9, 10, 11, 12, 13, 32}

RECURSIVE TrimLeft(_)
TrimLeft(s) ==
    IF s # <<>> /\ IsSpace(Head(s)) THEN TrimLeft(Tail(s)) ELSE s

RECURSIVE TrimRight(_)
TrimRight(s) ==
    IF s # <<>> /\ IsSpace(s[Len(s)])
    THEN TrimRight(SubSeq(s, 1, Len(s) - 1))
    ELSE s

\* strings.TrimSpace
TrimSpace(s) == TrimRight(TrimLeft(s))

\* strings.Join
RECURSIVE Join(_, _)
Join(parts, sep) ==
    IF parts = <<>> THEN <<>>
    ELSE IF Len(parts) = 1 THEN parts[1]
    ELSE parts[1] \o sep \o Join(Tail(parts), sep)

\* strings.SplitN(s, "\t", 2)[0]: the text before the first tab, or all of
\* s when it holds no tab.
RECURSIVE FirstField(_)
FirstField(s) ==
    IF s = <<>> \/ Head(s) = TAB THEN <<>>
    ELSE <<Head(s)>> \o FirstField(Tail(s))

\* s starts with prefix p.
HasPrefix(s, p) == Len(s) >= Len(p) /\ SubSeq(s, 1, Len(p)) = p

\* strings.Count(s, sub): the non-overlapping occurrences of sub in s.
RECURSIVE Count(_, _)
Count(s, sub) ==
    IF Len(s) < Len(sub) THEN 0
    ELSE IF HasPrefix(s, sub)
         THEN 1 + Count(SubSeq(s, Len(sub) + 1, Len(s)), sub)
         ELSE Count(Tail(s), sub)

\* b occurs in s.
Contains(s, b) == \E i \in 1..Len(s) : s[i] = b

(***************************************************************************)
(* base64.StdEncoding.DecodeString (padded, not strict).                   *)
(***************************************************************************)
\* The 6-bit value of a byte of the standard alphabet, -1 for any other.
B64Val(b) ==
    IF b >= 65 /\ b <= 90 THEN b - 65
    ELSE IF b >= 97 /\ b <= 122 THEN b - 71
    ELSE IF b >= 48 /\ b <= 57 THEN b + 4
    ELSE IF b = 43 THEN 62
    ELSE IF b = 47 THEN 63
    ELSE -1

\* The decoder skips \r and \n wherever they stand.
RECURSIVE DropNewlines(_)
DropNewlines(s) ==
    IF s = <<>> THEN <<>>
    ELSE IF Head(s) \in {10, 13} THEN DropNewlines(Tail(s))
    ELSE <<Head(s)>> \o DropNewlines(Tail(s))

\* The three bytes of a full quantum of four alphabet characters.
Quantum(a, b, c, d) ==
    LET n == B64Val(a) * 262144 + B64Val(b) * 4096 + B64Val(c) * 64 + B64Val(d)
    IN  << n \div 65536, (n \div 256) % 256, n % 256 >>

\* Decode of the input with newlines dropped: [ok, bytes].  A quantum is
\* four characters; only the last may end in "=" or "==", and an input that
\* stops inside a quantum is corrupt.
RECURSIVE DecodeQuanta(_)
DecodeQuanta(s) ==
    IF s = <<>> THEN [ok |-> TRUE, bytes |-> <<>>]
    ELSE IF Len(s) < 4 THEN [ok |-> FALSE, bytes |-> <<>>]
    ELSE IF B64Val(s[1]) < 0 \/ B64Val(s[2]) < 0
         THEN [ok |-> FALSE, bytes |-> <<>>]
    ELSE IF s[3] = PAD
         THEN IF s[4] = PAD /\ Len(s) = 4
              THEN [ok |-> TRUE,
                    bytes |-> SubSeq(Quantum(s[1], s[2], 65, 65), 1, 1)]
              ELSE [ok |-> FALSE, bytes |-> <<>>]
    ELSE IF B64Val(s[3]) < 0 THEN [ok |-> FALSE, bytes |-> <<>>]
    ELSE IF s[4] = PAD
         THEN IF Len(s) = 4
              THEN [ok |-> TRUE,
                    bytes |-> SubSeq(Quantum(s[1], s[2], s[3], 65), 1, 2)]
              ELSE [ok |-> FALSE, bytes |-> <<>>]
    ELSE IF B64Val(s[4]) < 0 THEN [ok |-> FALSE, bytes |-> <<>>]
    ELSE LET rest == DecodeQuanta(SubSeq(s, 5, Len(s)))
         IN  [ok |-> rest.ok,
              bytes |-> Quantum(s[1], s[2], s[3], s[4]) \o rest.bytes]

\* base64.StdEncoding.DecodeString(s): err == nil is .ok, the bytes .bytes.
DecodeString(s) == DecodeQuanta(DropNewlines(s))

(***************************************************************************)
(* Formatting helpers.                                                     *)
(***************************************************************************)
orEmpty(s) == IF TrimSpace(s) = <<>> THEN <<>> ELSE s

decodeB64OrRaw(s) ==
    LET d == DecodeString(s)
    IN  IF d.ok THEN d.bytes ELSE s

\* One custom field's part of the description: <<>> when the field is
\* skipped, else the one-element list of its text.
CustomPart(c) ==
    LET name == TrimSpace(decodeB64OrRaw(c.Name))
        val  == TrimSpace(decodeB64OrRaw(c.Value))
    IN  IF name = <<>> /\ val = <<>> THEN <<>>
        ELSE IF name = <<>> THEN <<val>>
        ELSE IF val = <<>> THEN <<name>>
        ELSE <<name \o Str(<<"=">>) \o val>>

RECURSIVE CustomParts(_)
CustomParts(custom) ==
    IF custom = <<>> THEN <<>>
    ELSE CustomPart(Head(custom)) \o CustomParts(Tail(custom))

formatDescription(custom) ==
    IF Len(custom) = 0 THEN <<>>
    ELSE Join(CustomParts(custom), Str(<<";", " ">>))

\* sort.Slice(path, less-by-Order).  For fewer than 12 elements sort.Slice
\* runs an insertion sort: each element moves left past the elements whose
\* Order is strictly greater, so segments of equal Order keep their input
\* order.
RECURSIVE InsertByOrder(_, _)
InsertByOrder(sorted, x) ==
    IF sorted # <<>> /\ x.Order < sorted[Len(sorted)].Order
    THEN InsertByOrder(SubSeq(sorted, 1, Len(sorted) - 1), x)
         \o <<sorted[Len(sorted)]>>
    ELSE sorted \o <<x>>

RECURSIVE SortByOrder(_)
SortByOrder(path) ==
    IF path = <<>> THEN <<>>
    ELSE InsertByOrder(SortByOrder(SubSeq(path, 1, Len(path) - 1)),
                       path[Len(path)])

\* The non-empty names of the segments, in the order of the list.
RECURSIVE SegmentNames(_)
SegmentNames(path) ==
    IF path = <<>> THEN <<>>
    ELSE (IF Head(path).Name # <<>> THEN <<Head(path).Name>> ELSE <<>>)
         \o SegmentNames(Tail(path))

\* formatPath without the sort: the mutation used against the path claim.
formatPathUnsorted(path) ==
    IF Len(path) = 0 THEN Str(<<"-">>)
    ELSE IF SegmentNames(path) = <<>> THEN Str(<<"-">>)
    ELSE Join(SegmentNames(path), Str(<<" ", "/", " ">>))

formatPath(path) ==
    IF Len(path) = 0 THEN Str(<<"-">>)
    ELSE LET names == SegmentNames(SortByOrder(path))
         IN  IF Len(names) = 0 THEN Str(<<"-">>)
             ELSE Join(names, Str(<<" ", "/", " ">>))

\* The five display columns of a record, as buildFzfLine renders them.
Columns(p) ==
    << IF p.Name = <<>> THEN Str(<<"(", "n", "o", " ", "t", "i", "t", "l", "e", ")">>)
       ELSE p.Name,
       formatPath(p.Path),
       orEmpty(p.Login),
       orEmpty(p.URL),
       formatDescription(p.Custom) >>

\* The non-empty members of a list of strings.
RECURSIVE NonEmpty(_)
NonEmpty(parts) ==
    IF parts = <<>> THEN <<>>
    ELSE (IF Head(parts) # <<>> THEN <<Head(parts)>> ELSE <<>>)
         \o NonEmpty(Tail(parts))

\* buildFzfLine joining only the non-empty columns: the mutation used
\* against the line-format claim.
buildFzfLineSkipEmpty(p) ==
    p.ID \o <<TAB>> \o Join(NonEmpty(Columns(p)), SEP)

buildFzfLine(p) ==
    LET c == Columns(p)
        display == c[1] \o SEP \o c[2] \o SEP \o c[3] \o SEP \o c[4]
                   \o SEP \o c[5]
    IN  p.ID \o <<TAB>> \o display

(***************************************************************************)
(* The state of one run of main, and of the formatting harnesses.          *)
(***************************************************************************)
VARIABLES
    pc,         \* position of main: "config", "login", "search", "fetch",
                \* "build", "select", "lookup", "copy", "done"; "off" when
                \* main is not the program under check
    cfg,        \* Config: BaseURL and APIKey, read from the environment
    token,      \* the session token login returned
    hits,       \* the ids of the hits searchPasswords returned, in order
    next,       \* index in hits of the next hit the fetch loop handles
    details,    \* the passwordDetail records fetched so far
    lines,      \* the lines given to fzf
    user,       \* what the user did in the selector: "none", "pick", "abort"
    picked,     \* index of the line the user picked, 0 when none
    selected,   \* what runFzf returned
    chosen,     \* index in details of the record main chose, 0 for nil
    calls,      \* every remote call and external process run, in order,
                \* each with its argument and its outcome
    stderr,     \* the messages written to the error stream, in order
    stdout,     \* the messages written to the output stream
    exitCode,   \* the process's exit code (0 until os.Exit(1))
    fpc,        \* formatting harness: "off", "in" (input drawn), "out"
    fin,        \* formatting harness: the input
    fout        \* formatting harness: the result

vars ==
    << pc, cfg, token, hits, next, details, lines, user, picked, selected,
       chosen, calls, stderr, stdout, exitCode, fpc, fin, fout >>

mainVars ==
    << pc, cfg, token, hits, next, details, lines, user, picked, selected,
       chosen, calls, stderr, stdout, exitCode >>

fmtVars == << fpc, fin, fout >>

(***************************************************************************)
(* The inputs: environment, server responses, user and process outcomes.   *)
(***************************************************************************)
Configs == [BaseURL : {"", "https://vault/api"}, APIKey : {"", "key"}]

\* The identifiers of the hits a search returns.
HitIDs == { Str(<<"a">>), Str(<<"b">>) }

\* The identifiers a fetched record carries: main takes the id from the
\* response, whatever id was asked for, and the JSON decoder leaves it
\* empty when the record has no "id".
IDs == HitIDs \cup { <<>> }

\* cryptedPassword values: base64 of "hello", empty, and not base64.
SecretHello == Str(<<"a", "G", "V", "s", "b", "G", "8", "=">>)
SecretRaw == Str(<<"p", "w", "!">>)
Secrets == { SecretHello, <<>>, SecretRaw }

\* A passwordDetail.  VaultID, Tags, Color and Attachments are never read.
Detail(id, name, login, url, secret, path, custom) ==
    [ID |-> id, Name |-> name, Login |-> login, URL |-> url,
     CryptedPassword |-> secret, Path |-> path, Custom |-> custom]

\* The records GET /passwords/{id} may answer with.
DetailPool ==
    { Detail(id, Str(<<"g", "h">>), Str(<<"j", "o", "e">>), <<>>, s, <<>>, <<>>) :
        id \in IDs, s \in Secrets }

\* Sequences over S of length at most n.
SeqsUpTo(S, n) == UNION { [1..k -> S] : k \in 0..n }

\* POST /auth/login/{apiKey}: a transport error, or an HTTP status with a
\* payload {status, data:{token}}.
LoginResponses ==
    { [err |-> TRUE, code |-> 0, status |-> "", token |-> ""],
      [err |-> FALSE, code |-> 401, status |-> "error", token |-> ""],
      [err |-> FALSE, code |-> 200, status |-> "error", token |-> "tok"],
      [err |-> FALSE, code |-> 200, status |-> "success", token |-> ""],
      [err |-> FALSE, code |-> 200, status |-> "success", token |-> "tok"] }

\* POST /passwords/search: {status, data:[{id,name}]}; only the ids are read.
SearchResponses ==
    { [err |-> TRUE, code |-> 0, status |-> "", data |-> <<>>],
      [err |-> FALSE, code |-> 500, status |-> "error", data |-> <<>>],
      [err |-> FALSE, code |-> 200, status |-> "error", data |-> <<>>] }
    \cup { [err |-> FALSE, code |-> 200, status |-> "success", data |-> d] :
             d \in SeqsUpTo(HitIDs, MaxHits) }

\* GET /passwords/{id}: {status, data: passwordDetail}.
GetResponses ==
    { [err |-> TRUE, code |-> 0, status |-> "", data |-> <<>>],
      [err |-> FALSE, code |-> 404, status |-> "error", data |-> <<>>],
      [err |-> FALSE, code |-> 200, status |-> "error", data |-> <<>>] }
    \cup { [err |-> FALSE, code |-> 200, status |-> "success", data |-> d] :
             d \in DetailPool }

\* What the selector process does with the lines it is given.  started is
\* whether exec could start it, status its exit status (cmd.Run returns an
\* error unless it is 0), stdout what it printed.
\*   - it cannot be started;
\*   - the user picks line k: it prints the line and exits 0;
\*   - the user aborts (escape, ctrl-c): it prints nothing; fzf then exits
\*     with status 130, another selector named by FZF_BIN may exit 0;
\*   - it fails for another reason (fzf: 2), printing nothing.
FzfOutcomes(ls) ==
    { [started |-> FALSE, status |-> 0, stdout |-> <<>>, user |-> "none",
       picked |-> 0],
      [started |-> TRUE, status |-> 2, stdout |-> <<>>, user |-> "none",
       picked |-> 0],
      [started |-> TRUE, status |-> 130, stdout |-> <<>>, user |-> "abort",
       picked |-> 0],
      [started |-> TRUE, status |-> 0, stdout |-> <<>>, user |-> "abort",
       picked |-> 0] }
    \cup { [started |-> TRUE, status |-> 0, stdout |-> ls[k] \o <<NL>>,
            user |-> "pick", picked |-> k] : k \in 1..Len(ls) }

\* The environment detectClipboardCommand reads: CLIP_BIN, runtime.GOOS,
\* and whether wl-copy and xclip are on the PATH.
ClipEnvs ==
    [CLIP_BIN : {"", "myclip"}, GOOS : {"darwin", "linux", "windows"},
     wlcopy : BOOLEAN, xclip : BOOLEAN]

\* The command line of the clipboard utility, <<>> for nil.
detectClipboardCommand(env) ==
    IF env.CLIP_BIN # "" THEN <<env.CLIP_BIN>>
    ELSE IF env.GOOS = "darwin" THEN <<"pbcopy">>
    ELSE IF env.GOOS = "linux" /\ env.wlcopy THEN <<"wl-copy">>
    ELSE IF env.GOOS = "linux" /\ env.xclip
         THEN <<"xclip", "-selection", "clipboard">>
    ELSE <<>>

(***************************************************************************)
(* The log of calls.                                                       *)
(***************************************************************************)
\* One entry: the operation ("login", "search", "get", "fzf", "clip"), its
\* argument (the id fetched, the text piped in), whether it succeeded, and
\* the data it returned.
Call(op, arg, ok, data) == [op |-> op, arg |-> arg, ok |-> ok, data |-> data]

CallsOf(op) == SelectSeq(calls, LAMBDA c : c.op = op)

\* The records of the successful fetches, in the order of the fetches.
RECURSIVE FetchedOf(_)
FetchedOf(log) ==
    IF log = <<>> THEN <<>>
    ELSE (IF Head(log).op = "get" /\ Head(log).ok
          THEN <<Head(log).data>> ELSE <<>>)
         \o FetchedOf(Tail(log))

Exit(code, msg) ==
    /\ pc' = "done"
    /\ exitCode' = code
    /\ stderr' = IF msg = "" THEN stderr ELSE Append(stderr, msg)

(***************************************************************************)
(* The remote calls and the process helpers, as functions of the response  *)
(* or outcome the environment gives.                                       *)
(***************************************************************************)
\* login issuing the request before it looks at the key: the mutation used
\* against the missing-key claim.
loginCallFirst(c, resp) ==
    IF resp.err \/ resp.code # 200 \/ c.APIKey = ""
    THEN [called |-> TRUE, ok |-> FALSE, token |-> ""]
    ELSE IF resp.status # "success" \/ resp.token = ""
    THEN [called |-> TRUE, ok |-> FALSE, token |-> ""]
    ELSE [called |-> TRUE, ok |-> TRUE, token |-> resp.token]

\* login: called is whether the request was issued.  A response with err
\* stands for every failure of client.Do or of the JSON decoder.
login(c, resp) ==
    IF c.APIKey = ""
    THEN [called |-> FALSE, ok |-> FALSE, token |-> ""]
    ELSE IF resp.err \/ resp.code # 200
    THEN [called |-> TRUE, ok |-> FALSE, token |-> ""]
    ELSE IF resp.status # "success" \/ resp.token = ""
    THEN [called |-> TRUE, ok |-> FALSE, token |-> ""]
    ELSE [called |-> TRUE, ok |-> TRUE, token |-> resp.token]

searchPasswords(resp) ==
    IF resp.err \/ resp.code # 200 THEN [ok |-> FALSE, data |-> <<>>]
    ELSE IF resp.status # "success" THEN [ok |-> FALSE, data |-> <<>>]
    ELSE [ok |-> TRUE, data |-> resp.data]

\* The zero passwordDetail, returned beside an error.
NoDetail == Detail(<<>>, <<>>, <<>>, <<>>, <<>>, <<>>, <<>>)

getPassword(resp) ==
    IF resp.err \/ resp.code # 200 THEN [ok |-> FALSE, data |-> NoDetail]
    ELSE IF resp.status # "success" THEN [ok |-> FALSE, data |-> NoDetail]
    ELSE [ok |-> TRUE, data |-> resp.data]

\* runFzf: err is cmd.Run's error, out the trimmed output.
runFzf(o) ==
    IF ~o.started \/ o.status # 0 THEN [err |-> TRUE, out |-> <<>>]
    ELSE [err |-> FALSE, out |-> TrimSpace(o.stdout)]

\* copyToClipboard: invoked is whether the clipboard process was run (with
\* the text on its standard input), ok whether no error came back.
copyToClipboard(env, runs) ==
    IF detectClipboardCommand(env) = <<>>
    THEN [invoked |-> FALSE, ok |-> FALSE]
    ELSE [invoked |-> TRUE, ok |-> runs]

\* The text main copies without the decode: the mutation used against the
\* clipboard-delivery claim.
secretTextRaw(raw) == [text |-> raw, warn |-> FALSE]

\* The text main copies for a cryptedPassword, and whether it warns that
\* the value does not decode.
secretText(raw) ==
    LET d == DecodeString(raw)
    IN  IF d.ok THEN [text |-> d.bytes, warn |-> FALSE]
        ELSE [text |-> raw, warn |-> TRUE]

\* main's lookup of the selected id: the index of the first record with
\* that id, 0 when there is none.
Lookup(ds, id) ==
    IF \E i \in 1..Len(ds) : ds[i].ID = id
    THEN CHOOSE i \in 1..Len(ds) :
            /\ ds[i].ID = id
            /\ \A j \in 1..(i - 1) : ds[j].ID # id
    ELSE 0

(***************************************************************************)
(* main, one action per stage.                                             *)
(***************************************************************************)
MainConfig ==
    /\ pc = "config"
    /\ IF cfg.BaseURL = ""
       THEN Exit(1, "PASSWORK_BASE_URL environment variable is not set")
       ELSE /\ pc' = "login"
            /\ UNCHANGED <<exitCode, stderr>>
    /\ UNCHANGED << cfg, token, hits, next, details, lines, user, picked,
                    selected, chosen, calls, stdout, fmtVars >>

MainLogin ==
    /\ pc = "login"
    /\ \E resp \in LoginResponses :
         LET r == login(cfg, resp)
         IN  /\ calls' = IF r.called
                         THEN Append(calls, Call("login", <<>>, r.ok, <<>>))
                         ELSE calls
             /\ IF r.ok
                THEN /\ token' = r.token
                     /\ pc' = "search"
                     /\ UNCHANGED <<exitCode, stderr>>
                ELSE /\ Exit(1, "login error")
                     /\ UNCHANGED token
    /\ UNCHANGED << cfg, hits, next, details, lines, user, picked, selected,
                    chosen, stdout, fmtVars >>

MainSearch ==
    /\ pc = "search"
    /\ \E resp \in SearchResponses :
         LET r == searchPasswords(resp)
         IN  /\ calls' = Append(calls, Call("search", <<>>, r.ok, r.data))
             /\ IF ~r.ok
                THEN /\ Exit(1, "search error")
                     /\ UNCHANGED <<hits, next>>
                ELSE /\ hits' = r.data
                     /\ next' = 1
                     /\ IF Len(r.data) = 0
                        THEN Exit(0, "no passwords found")
                        ELSE /\ pc' = "fetch"
                             /\ UNCHANGED <<exitCode, stderr>>
    /\ UNCHANGED << cfg, token, details, lines, user, picked, selected,
                    chosen, stdout, fmtVars >>

\* The fetch loop issuing a failed request a second time: the mutation used
\* against the ordering and no-retry claim.
MainFetchRetry ==
    /\ pc = "fetch"
    /\ next <= Len(hits)
    /\ \E resp \in GetResponses :
         LET r == getPassword(resp)
             c == Call("get", hits[next], r.ok, r.data)
         IN  IF r.ok
             THEN /\ calls' = Append(calls, c)
                  /\ details' = Append(details, r.data)
                  /\ UNCHANGED stderr
             ELSE /\ calls' = calls \o <<c, c>>
                  /\ stderr' = Append(stderr, "warning: skip")
                  /\ UNCHANGED details
    /\ next' = next + 1
    /\ pc' = IF next = Len(hits) THEN "build" ELSE "fetch"
    /\ UNCHANGED << cfg, token, hits, lines, user, picked, selected, chosen,
                    stdout, exitCode, fmtVars >>

\* The fetch loop without its continue, appending the zero record of a
\* failed fetch: the mutation used against the skipped-fetch claim.
MainFetchNoContinue ==
    /\ pc = "fetch"
    /\ next <= Len(hits)
    /\ \E resp \in GetResponses :
         LET r == getPassword(resp)
         IN  /\ calls' = Append(calls, Call("get", hits[next], r.ok, r.data))
             /\ details' = Append(details, r.data)
             /\ stderr' = IF r.ok THEN stderr
                          ELSE Append(stderr, "warning: skip")
    /\ next' = next + 1
    /\ pc' = IF next = Len(hits) THEN "build" ELSE "fetch"
    /\ UNCHANGED << cfg, token, hits, lines, user, picked, selected, chosen,
                    stdout, exitCode, fmtVars >>

\* One iteration of the fetch loop.
MainFetch ==
    /\ pc = "fetch"
    /\ next <= Len(hits)
    /\ \E resp \in GetResponses :
         LET r == getPassword(resp)
         IN  /\ calls' = Append(calls, Call("get", hits[next], r.ok, r.data))
             /\ IF r.ok
                THEN /\ details' = Append(details, r.data)
                     /\ UNCHANGED stderr
                ELSE /\ stderr' = Append(stderr, "warning: skip")
                     /\ UNCHANGED details
    /\ next' = next + 1
    /\ pc' = IF next = Len(hits) THEN "build" ELSE "fetch"
    /\ UNCHANGED << cfg, token, hits, lines, user, picked, selected, chosen,
                    stdout, exitCode, fmtVars >>

\* The step after the loop without the check for an empty detail list: the
\* mutation used against the nothing-to-select claim.
MainBuildNoCheck ==
    /\ pc = "build"
    /\ lines' = [k \in 1..Len(details) |-> buildFzfLine(details[k])]
    /\ pc' = "select"
    /\ UNCHANGED << cfg, token, hits, next, details, user, picked, selected,
                    chosen, calls, stderr, stdout, exitCode, fmtVars >>

\* After the loop: stop when nothing was fetched, else build the lines.
MainBuild ==
    /\ pc = "build"
    /\ IF Len(details) = 0
       THEN /\ Exit(0, "no usable password entries")
            /\ UNCHANGED lines
       ELSE /\ lines' = [k \in 1..Len(details) |-> buildFzfLine(details[k])]
            /\ pc' = "select"
            /\ UNCHANGED <<exitCode, stderr>>
    /\ UNCHANGED << cfg, token, hits, next, details, user, picked, selected,
                    chosen, calls, stdout, fmtVars >>

MainSelect ==
    /\ pc = "select"
    /\ \E o \in FzfOutcomes(lines) :
         LET r == runFzf(o)
         IN  /\ calls' = Append(calls, Call("fzf", Join(lines, <<NL>>),
                                            ~r.err, r.out))
             /\ user' = o.user
             /\ picked' = o.picked
             /\ selected' = r.out
             /\ IF r.err THEN Exit(1, "fzf error")
                ELSE IF r.out = <<>> THEN Exit(0, "")
                ELSE /\ pc' = "lookup"
                     /\ UNCHANGED <<exitCode, stderr>>
    /\ UNCHANGED << cfg, token, hits, next, details, lines, chosen, stdout,
                    fmtVars >>

MainLookup ==
    /\ pc = "lookup"
    /\ LET id == FirstField(selected)
           i  == Lookup(details, id)
       IN  /\ chosen' = i
           /\ IF i = 0
              THEN Exit(1, "could not find password for selected id")
              ELSE IF details[i].CryptedPassword = <<>>
              THEN Exit(1, "selected entry has empty cryptedPassword")
              ELSE /\ pc' = "copy"
                   /\ UNCHANGED <<exitCode, stderr>>
    /\ UNCHANGED << cfg, token, hits, next, details, lines, user, picked,
                    selected, calls, stdout, fmtVars >>

MainCopy ==
    /\ pc = "copy"
    /\ \E env \in ClipEnvs, runs \in BOOLEAN :
         LET t == secretText(details[chosen].CryptedPassword)
             w == IF t.warn
                  THEN Append(stderr,
                         "warning: cannot base64-decode cryptedPassword")
                  ELSE stderr
             r == copyToClipboard(env, runs)
         IN  /\ calls' = IF r.invoked
                         THEN Append(calls, Call("clip", t.text, r.ok, <<>>))
                         ELSE calls
             /\ pc' = "done"
             /\ IF r.ok
                THEN /\ stderr' = w
                     /\ stdout' = Append(stdout, "Copied password")
                     /\ UNCHANGED exitCode
                ELSE /\ stderr' = Append(w, "clipboard error")
                     /\ exitCode' = 1
                     /\ UNCHANGED stdout
    /\ UNCHANGED << cfg, token, hits, next, details, lines, user, picked,
                    selected, chosen, fmtVars >>

\* The formatting harnesses are idle while main runs.
FmtOff == fpc = "off" /\ fin = <<>> /\ fout = <<>>

Init ==
    /\ pc = "config"
    /\ cfg \in Configs
    /\ token = ""
    /\ hits = <<>>
    /\ next = 1
    /\ details = <<>>
    /\ lines = <<>>
    /\ user = "none"
    /\ picked = 0
    /\ selected = <<>>
    /\ chosen = 0
    /\ calls = <<>>
    /\ stderr = <<>>
    /\ stdout = <<>>
    /\ exitCode = 0
    /\ FmtOff

Next ==
    \/ MainConfig
    \/ MainLogin
    \/ MainSearch
    \/ MainFetch
    \/ MainBuild
    \/ MainSelect
    \/ MainLookup
    \/ MainCopy

Spec == Init /\ [][Next]_vars

(***************************************************************************)
(* Harnesses for the pure formatting functions: the input is drawn in the  *)
(* initial state and one action applies the function.                      *)
(***************************************************************************)
\* main is not running.
MainOff ==
    /\ pc = "off"
    /\ cfg = [BaseURL |-> "", APIKey |-> ""]
    /\ token = ""
    /\ hits = <<>>
    /\ next = 1
    /\ details = <<>>
    /\ lines = <<>>
    /\ user = "none"
    /\ picked = 0
    /\ selected = <<>>
    /\ chosen = 0
    /\ calls = <<>>
    /\ stderr = <<>>
    /\ stdout = <<>>
    /\ exitCode = 0

\* A pathSegment; Type and ID are never read.
Segment(o, n) == [Order |-> o, Name |-> n]

Segments ==
    { Segment(o, n) : o \in 1..3, n \in { <<>>, Str(<<"x">>), Str(<<"y">>) } }

PathLists == SeqsUpTo(Segments, MaxPath)

ApplyFormatPath ==
    /\ fpc = "in"
    /\ fout' = formatPath(fin)
    /\ fpc' = "out"
    /\ UNCHANGED <<fin, mainVars>>

InitPath == MainOff /\ fpc = "in" /\ fin \in PathLists /\ fout = <<>>

SpecPath == InitPath /\ [][ApplyFormatPath]_vars

\* A customField; Type is never read.
Field(n, v) == [Name |-> n, Value |-> v]

\* base64 of "k" with base64 of "v"; both blank; a blank name with a value
\* that is not base64; base64 of "n" with no value.
CustomFields ==
    { Field(Str(<<"a", "w", "=", "=">>), Str(<<"d", "g", "=", "=">>)),
      Field(<<>>, Str(<<" ">>)),
      Field(Str(<<" ">>), Str(<<"r", "!">>)),
      Field(Str(<<"b", "g", "=", "=">>), <<>>) }

LineRecords ==
    { Detail(id, nm, lg, url, SecretHello, path, custom) :
        id \in { Str(<<"a">>), <<>> },
        nm \in { <<>>, Str(<<"g", "h">>), Str(<<"x", " ", "|", " ", "y">>) },
        lg \in { <<>>, Str(<<"j", "o", "e">>), Str(<<" ">>) },
        url \in { <<>>, Str(<<"u">>) },
        path \in { <<>>,
                   <<Segment(2, Str(<<"y">>)), Segment(1, Str(<<"x">>))>>,
                   <<Segment(1, <<>>)>> },
        custom \in SeqsUpTo(CustomFields, MaxCustom) }

ApplyBuildFzfLine ==
    /\ fpc = "in"
    /\ fout' = buildFzfLine(fin)
    /\ fpc' = "out"
    /\ UNCHANGED <<fin, mainVars>>

InitLine == MainOff /\ fpc = "in" /\ fin \in LineRecords /\ fout = <<>>

SpecLine == InitLine /\ [][ApplyBuildFzfLine]_vars

(***************************************************************************)
(* Helpers of the properties.                                              *)
(***************************************************************************)
Ops == [i \in 1..Len(calls) |-> calls[i].op]

IsPrefix(a, b) == Len(a) <= Len(b) /\ SubSeq(b, 1, Len(a)) = a

Logged(msg) == \E i \in 1..Len(stderr) : stderr[i] = msg

LastLogged(msg) == stderr # <<>> /\ stderr[Len(stderr)] = msg

NoSelectorOrClipboard ==
    \A i \in 1..Len(calls) : calls[i].op \notin {"fzf", "clip"}

\* The order of calls of a run that goes all the way, given the hits.
ExpectedOps ==
    <<"login", "search">> \o [i \in 1..Len(hits) |-> "get"]
        \o <<"fzf", "clip">>

\* The identifiers shown to the user: the first column of each line.
DisplayedIds == { FirstField(lines[k]) : k \in 1..Len(lines) }

FailedGet(i) == calls[i].op = "get" /\ ~calls[i].ok

\* strings.Split(s, " | ")
RECURSIVE SplitSep(_, _)
SplitSep(s, cur) ==
    IF s = <<>> THEN <<cur>>
    ELSE IF HasPrefix(s, SEP)
    THEN <<cur>> \o SplitSep(SubSeq(s, Len(SEP) + 1, Len(s)), <<>>)
    ELSE SplitSep(Tail(s), Append(cur, Head(s)))

\* The permutations of 1..n, and a list rearranged by one.
Perms(n) ==
    { f \in [1..n -> 1..n] : \A i, j \in 1..n : i # j => f[i] # f[j] }

Permuted(p, f) == [i \in 1..Len(p) |-> p[f[i]]]

DistinctOrders(p) ==
    \A i, j \in 1..Len(p) : i # j => p[i].Order # p[j].Order

Ascending(p) ==
    \A i, j \in 1..Len(p) : i < j => p[i].Order <= p[j].Order

(***************************************************************************)
(* C1.  The calls of a run are a prefix of login, search, one fetch per    *)
(* hit in the order of the hits, selector, clipboard.  A call other than   *)
(* a fetch that failed is the last call of the run and ends it with exit   *)
(* code 1 (nothing is retried, nothing follows it); the selector runs only *)
(* after every hit was fetched exactly once; login and search are issued   *)
(* at most once.                                                           *)
(***************************************************************************)
C1_StageOrder ==
    /\ IsPrefix(Ops, ExpectedOps)
    /\ \A i \in 1..Len(calls) :
         /\ calls[i].op = "get" => calls[i].arg = hits[i - 2]
         /\ (calls[i].op # "get" /\ ~calls[i].ok) =>
                i = Len(calls) /\ pc = "done" /\ exitCode = 1
    /\ Len(CallsOf("login")) <= 1
    /\ Len(CallsOf("search")) <= 1
    /\ (\E i \in 1..Len(calls) : calls[i].op = "search") => token # ""
    /\ (\E i \in 1..Len(calls) : calls[i].op = "fzf") =>
          /\ Len(CallsOf("get")) = Len(hits)
          /\ lines # <<>>
    /\ (\E i \in 1..Len(calls) : calls[i].op = "clip") =>
          /\ selected # <<>>
          /\ chosen # 0

\* A complete run over two hits whose first fetch failed: the second hit is
\* fetched next, then the selector and the clipboard run.
C1_Witness ==
    /\ pc = "done"
    /\ exitCode = 0
    /\ Ops = <<"login", "search", "get", "get", "fzf", "clip">>
    /\ ~calls[3].ok
    /\ calls[6].ok

(***************************************************************************)
(* C2.  With PASSWORK_BASE_URL set and PASSWORK_API_KEY empty the run      *)
(* makes no call at all (no login, search, fetch, selector or clipboard)   *)
(* and, once past the login stage, has ended with exit code 1 and the      *)
(* login error message.                                                    *)
(***************************************************************************)
C2_MissingKey ==
    (cfg.APIKey = "" /\ cfg.BaseURL # "") =>
        /\ calls = <<>>
        /\ \/ pc \in {"config", "login"}
           \/ pc = "done" /\ exitCode = 1 /\ stderr = <<"login error">>

C2_Witness ==
    cfg.APIKey = "" /\ cfg.BaseURL # "" /\ pc = "done" /\ exitCode = 1

(***************************************************************************)
(* C3 as amended.  The fetched records are exactly the records of the      *)
(* successful fetches, in the order of the hits; the lines given to the    *)
(* selector are exactly one line per such record, in that order; a failed  *)
(* fetch leaves the exit code 0 and the run going (or ending with 0 when   *)
(* nothing was fetched); and the identifier of a failed hit is displayed   *)
(* only when a successfully fetched record carries that identifier.        *)
(***************************************************************************)
C3_SkipFailedFetch ==
    /\ details = FetchedOf(calls)
    /\ (pc \in {"select", "lookup", "copy"} \/ lines # <<>>) =>
          lines = [k \in 1..Len(FetchedOf(calls)) |->
                      buildFzfLine(FetchedOf(calls)[k])]
    /\ (calls # <<>> /\ FailedGet(Len(calls))) =>
          /\ exitCode = 0
          /\ pc = "done" => details = <<>>
    /\ \A i \in 1..Len(calls) :
          (FailedGet(i) /\ calls[i].arg \in DisplayedIds) =>
              \E j \in 1..Len(calls) :
                  /\ calls[j].op = "get"
                  /\ calls[j].ok
                  /\ calls[j].data.ID = calls[i].arg

\* Two hits a and b, the fetch of a fails, the fetch of b succeeds: one
\* line, for b, and a is not displayed.
C3_Witness ==
    /\ pc = "select"
    /\ hits = << Str(<<"a">>), Str(<<"b">>) >>
    /\ FailedGet(3)
    /\ Len(lines) = 1
    /\ DisplayedIds = { Str(<<"b">>) }

\* C3 as stated: the identifier of a failed hit is never among the
\* displayed identifiers.
C3_Original ==
    /\ details = FetchedOf(calls)
    /\ (pc \in {"select", "lookup", "copy"} \/ lines # <<>>) =>
          lines = [k \in 1..Len(FetchedOf(calls)) |->
                      buildFzfLine(FetchedOf(calls)[k])]
    /\ (calls # <<>> /\ FailedGet(Len(calls))) =>
          /\ exitCode = 0
          /\ pc = "done" => details = <<>>
    /\ \A i \in 1..Len(calls) :
          FailedGet(i) => calls[i].arg \notin DisplayedIds

(***************************************************************************)
(* C4.  When the search returned no hit, the run has ended with exit code  *)
(* 0 and the message "no passwords found"; when every fetch of a non-empty *)
(* result failed, the run ends with exit code 0 and the message "no usable *)
(* password entries"; in both cases neither the selector nor the clipboard *)
(* process is ever run.                                                    *)
(***************************************************************************)
C4_NothingToSelect ==
    LET searchedEmpty ==
            \E i \in 1..Len(calls) :
                calls[i].op = "search" /\ calls[i].ok /\ calls[i].data = <<>>
        allFailed ==
            /\ hits # <<>>
            /\ next > Len(hits)
            /\ \A i \in 1..Len(calls) : calls[i].op = "get" => ~calls[i].ok
    IN  /\ searchedEmpty =>
            /\ pc = "done"
            /\ exitCode = 0
            /\ LastLogged("no passwords found")
            /\ NoSelectorOrClipboard
        /\ allFailed =>
            /\ \/ pc = "build"
               \/ /\ pc = "done"
                  /\ exitCode = 0
                  /\ LastLogged("no usable password entries")
            /\ NoSelectorOrClipboard

\* Two hits, both fetches failed, and the run is over.
C4_Witness ==
    /\ pc = "done"
    /\ Len(hits) = 2
    /\ Len(CallsOf("get")) = 2
    /\ details = <<>>
    /\ exitCode = 0

(***************************************************************************)
(* C5 as stated.  When the user aborts the selector the run ends with exit *)
(* code 0, without a selector error and without running the clipboard      *)
(* process.                                                                *)
(***************************************************************************)
C5_CancelExitsZero ==
    user = "abort" =>
        /\ pc = "done"
        /\ exitCode = 0
        /\ ~Logged("fzf error")
        /\ CallsOf("clip") = <<>>

(***************************************************************************)
(* C6 as stated.  When the user picks a line, the text before the first    *)
(* tab of what runFzf returns is the identifier of the record the line was *)
(* built from, and the run never reports that it could not find the        *)
(* selected id.                                                            *)
(***************************************************************************)
C6_IdRoundTrip ==
    /\ user = "pick" => FirstField(selected) = details[picked].ID
    /\ ~Logged("could not find password for selected id")

(***************************************************************************)
(* C7.  The text given to the clipboard process is the base64 decoding of  *)
(* the chosen record's cryptedPassword when it decodes ("aGVsbG8=" gives   *)
(* "hello") and the cryptedPassword itself, with a warning, when it does   *)
(* not; a run that reports the copy has run the clipboard process once;    *)
(* when the chosen record's cryptedPassword is empty the run ends with     *)
(* exit code 1 and the clipboard process is never run.                     *)
(***************************************************************************)
C7_ClipboardText ==
    /\ \A i \in 1..Len(calls) :
          calls[i].op = "clip" =>
              /\ chosen # 0
              /\ LET s == details[chosen].CryptedPassword
                     d == DecodeString(s)
                 IN  /\ s # <<>>
                     /\ d.ok => calls[i].arg = d.bytes
                     /\ ~d.ok =>
                          /\ calls[i].arg = s
                          /\ Logged("warning: cannot base64-decode cryptedPassword")
                     /\ s = SecretHello =>
                          calls[i].arg = Str(<<"h", "e", "l", "l", "o">>)
                     /\ s = SecretRaw => calls[i].arg = SecretRaw
    /\ stdout # <<>> => Len(CallsOf("clip")) = 1
    /\ (chosen # 0 /\ details[chosen].CryptedPassword = <<>>) =>
          /\ pc = "done"
          /\ exitCode = 1
          /\ CallsOf("clip") = <<>>

\* The record with cryptedPassword "aGVsbG8=" was chosen and "hello" was
\* copied.
C7_Witness ==
    /\ pc = "done"
    /\ exitCode = 0
    /\ chosen # 0
    /\ details[chosen].CryptedPassword = SecretHello
    /\ calls[Len(calls)].op = "clip"
    /\ calls[Len(calls)].arg = Str(<<"h", "e", "l", "l", "o">>)

(***************************************************************************)
(* C8 as amended.  For a record whose id and rendered columns hold no '|'  *)
(* character, the line is the id, a tab and the five columns (name or      *)
(* "(no title)", path, login, url, description) separated by " | ": it     *)
(* holds exactly four " | ", however many of the fields are empty.         *)
(***************************************************************************)
NoPipe(p) ==
    /\ ~Contains(p.ID, PIPE)
    /\ \A k \in 1..5 : ~Contains(Columns(p)[k], PIPE)

C8_LineFormat ==
    (fpc = "out" /\ NoPipe(fin)) =>
        /\ Count(fout, SEP) = 4
        /\ HasPrefix(fout, fin.ID \o <<TAB>>)
        /\ LET cols == SplitSep(SubSeq(fout, Len(fin.ID) + 2, Len(fout)), <<>>)
           IN  /\ Len(cols) = 5
               /\ cols[1] = IF fin.Name = <<>>
                            THEN Str(<<"(", "n", "o", " ", "t", "i", "t", "l", "e", ")">>)
                            ELSE fin.Name
               /\ cols[2] = formatPath(fin.Path)
               /\ cols[3] = IF TrimSpace(fin.Login) = <<>> THEN <<>> ELSE fin.Login
               /\ cols[4] = IF TrimSpace(fin.URL) = <<>> THEN <<>> ELSE fin.URL
               /\ cols[5] = formatDescription(fin.Custom)

\* A record whose name, login, url, path and custom fields are all empty
\* still gives a line with four separators.
C8_Witness ==
    /\ fpc = "out"
    /\ fin.Name = <<>> /\ fin.Login = <<>> /\ fin.URL = <<>>
    /\ fin.Path = <<>> /\ fin.Custom = <<>>
    /\ Count(fout, SEP) = 4

\* C8 as stated: every record's line holds exactly four " | ".
C8_Original == fpc = "out" => Count(fout, SEP) = 4

C10_SecretOfPickedLine ==
    \A i \in 1..Len(calls) :
        (calls[i].op = "clip" /\ user = "pick") =>
            /\ calls[i].arg = secretText(details[picked].CryptedPassword).text
            /\ calls[i - 1].op = "fzf"

====
